---------------------------- MODULE Spec2Model ----------------------------
(***************************************************************************)
(* A model of retirement-projector.py: the two configuration validators,   *)
(* the accumulation simulator (calculate_portfolio_growth), the scenario   *)
(* aggregator (calculate_withdrawal_scenarios) and the Streamlit script    *)
(* (main) that gates them.                                                 *)
(*                                                                         *)
(* Numbers.  Python floats are modelled as exact rationals [n, d] kept in  *)
(* lowest terms with d > 0, so equality of values is equality of records.  *)
(* Rounding error of IEEE doubles is not modelled.                         *)
(*                                                                         *)
(* Strings.  A name is a sequence of one-character strings, so that        *)
(* str.strip() is computed and not assumed.                                *)
(*                                                                         *)
(* Dictionaries.  A dict is a function from keys to values; an assignment  *)
(* d[k] = v is DictSet, which overwrites an existing key.                  *)
(***************************************************************************)
EXTENDS Integers, Sequences, FiniteSets, TLC

VARIABLES
    portfolios,             \* st.session_state.portfolios / argument portfolios
    retirement_portfolios,  \* st.session_state.retirement_portfolios / argument
    template,               \* value of the accumulation template selectbox
    retirement_template,    \* value of the retirement template selectbox
    years,                  \* years_to_retirement / argument years
    final_portfolio_value,  \* argument final_portfolio_value
    withdrawal_rates,       \* withdrawal_rates_float / argument withdrawal_rates
    retirement_years,       \* retirement_length / argument retirement_years
    called,                 \* the functions invoked so far, in order
    result,                 \* the value returned by the last call
    shown,                  \* what tab 3 rendered: "none", "analysis", "warning"
    steps,                  \* the number of script runs the session has seen
    event                   \* the widget whose change or press caused the run

vars == <<portfolios, retirement_portfolios, template, retirement_template,
          years, final_portfolio_value, withdrawal_rates, retirement_years,
          called, result, shown, steps, event>>

inputs == <<portfolios, retirement_portfolios, template, retirement_template,
            years, final_portfolio_value, withdrawal_rates, retirement_years>>

-----------------------------------------------------------------------------
(* Bounds of the model *)

MaxValidated == 2          \* longest list handed to a validator
MaxPortfolios == 2         \* longest component list handed to the simulator
MaxYears == 2              \* longest accumulation horizon
MaxRates == 2              \* longest withdrawal-rate list
MaxRetirementYears == 3    \* longest retirement horizon
MaxSteps == 3              \* longest sequence of UI interactions of a session

-----------------------------------------------------------------------------
(* Exact rational arithmetic standing for Python's float arithmetic *)

Abs(x) == IF x < 0 THEN -x ELSE x

RECURSIVE GCD(_, _)
GCD(a, b) == IF b = 0 THEN a ELSE GCD(b, a % b)

Rat(n, d) ==
    LET g == GCD(Abs(n), Abs(d))
        s == IF d < 0 THEN -1 ELSE 1
    IN  [n |-> s * (n \div g), d |-> s * (d \div g)]

RInt(i) == [n |-> i, d |-> 1]
RZero == RInt(0)
ROne == RInt(1)

RAdd(a, b) ==
    LET g == GCD(a.d, b.d)
    IN  Rat(a.n * (b.d \div g) + b.n * (a.d \div g), (a.d \div g) * b.d)
RNeg(a) == [n |-> -a.n, d |-> a.d]
RSub(a, b) == RAdd(a, RNeg(b))
RMul(a, b) ==
    LET g1 == GCD(Abs(a.n), b.d)
        g2 == GCD(Abs(b.n), a.d)
    IN  Rat((a.n \div g1) * (b.n \div g2), (a.d \div g2) * (b.d \div g1))
RDivInt(a, k) == RMul(a, Rat(1, k))
RLt(a, b) == RSub(a, b).n < 0
RLe(a, b) == RSub(a, b).n <= 0
RAbs(a) == [n |-> Abs(a.n), d |-> a.d]
Max0Unclamped(x) == x

\* max(0, x)
Max0(x) == IF RLt(RZero, x) THEN x ELSE RZero

RECURSIVE SumSeq(_)
\* sum(...) over a list of numbers, left to right from 0
SumSeq(s) == IF s = <<>> THEN RZero
             ELSE RAdd(SumSeq(SubSeq(s, 1, Len(s) - 1)), s[Len(s)])

-----------------------------------------------------------------------------
(* Strings *)

Whitespace == {" ", "\t", "\n"}

RECURSIVE LStrip(_)
LStrip(s) == IF s # <<>> /\ Head(s) \in Whitespace THEN LStrip(Tail(s)) ELSE s
RECURSIVE RStrip(_)
RStrip(s) == IF s # <<>> /\ s[Len(s)] \in Whitespace
             THEN RStrip(SubSeq(s, 1, Len(s) - 1)) ELSE s
\* str.strip()
Strip(s) == RStrip(LStrip(s))

KeyYear == <<"Y", "e", "a", "r">>
KeyTotal == <<"T", "o", "t", "a", "l">>
NameA == <<"A">>
NameB == <<"B">>
NameBlank == <<" ">>
NamePadded == <<" ", "A">>

-----------------------------------------------------------------------------
(* Dictionaries *)

EmptyDict == [k \in {} |-> RZero]
DictSet(d, k, v) == [x \in DOMAIN d \cup {k} |-> IF x = k THEN v ELSE d[x]]

-----------------------------------------------------------------------------
(* Config validators *)

Portfolio(name, initial, annual, rate) ==
    [name |-> name, initial |-> initial, annual |-> annual, rate |-> rate]
Asset(name, allocation, rate) ==
    [name |-> name, allocation |-> allocation, rate |-> rate]

\* one iteration of the loop of validate_portfolios: TRUE when it returns False
PortfolioRejected(portfolio) ==
    \/ Strip(portfolio.name) = <<>>
    \/ RLt(portfolio.initial, RZero) \/ RLt(portfolio.annual, RZero)
       \/ RLt(portfolio.rate, RZero)
    \/ portfolio.initial = RZero /\ portfolio.annual = RZero

RECURSIVE ValidatePortfoliosFrom(_, _)
ValidatePortfoliosFrom(ps, i) ==
    IF i > Len(ps) THEN TRUE
    ELSE IF PortfolioRejected(ps[i]) THEN FALSE
    ELSE ValidatePortfoliosFrom(ps, i + 1)

validate_portfolios(ps) == ValidatePortfoliosFrom(ps, 1)

Tolerance == Rat(1, 100)

AssetRejectedNoZeroCheck(asset) ==
    \/ Strip(asset.name) = <<>>
    \/ RLt(asset.allocation, RZero) \/ RLt(asset.rate, RZero)

\* one iteration of the loop of validate_retirement_portfolios
AssetRejected(asset) ==
    \/ Strip(asset.name) = <<>>
    \/ RLt(asset.allocation, RZero) \/ RLt(asset.rate, RZero)
    \/ asset.allocation = RZero

RECURSIVE ValidateAssetsFrom(_, _)
ValidateAssetsFrom(rps, i) ==
    IF i > Len(rps) THEN TRUE
    ELSE IF AssetRejected(rps[i]) THEN FALSE
    ELSE ValidateAssetsFrom(rps, i + 1)

TotalAllocation(rps) == SumSeq([i \in 1..Len(rps) |-> rps[i].allocation])

validate_retirement_portfolios(rps) ==
    IF rps = <<>> THEN FALSE
    ELSE IF RLt(Tolerance, RAbs(RSub(TotalAllocation(rps), ROne))) THEN FALSE
    ELSE ValidateAssetsFrom(rps, 1)

-----------------------------------------------------------------------------
(* The validators as functions of arbitrary lists *)

SeqsUpTo(S, n) == UNION {[1..k -> S] : k \in 0..n}

ValidatedNames == {NameBlank, NameA, NamePadded}
ValidatedAmounts == {RInt(-1), RZero, RInt(1)}
ValidatedRates == {Rat(-1, 100), RZero}
ValidatedPortfolios ==
    {Portfolio(nm, i, a, r) : nm \in ValidatedNames, i \in ValidatedAmounts,
                              a \in ValidatedAmounts, r \in ValidatedRates}

ValidatedAllocations ==
    {Rat(-1, 100), RZero, Rat(1, 100), Rat(49, 100), Rat(99, 200), Rat(1, 2),
     Rat(49, 50), Rat(199, 200), ROne, Rat(101, 100), Rat(51, 50)}
ValidatedAssets ==
    {Asset(nm, al, r) : nm \in {NameBlank, NameA}, al \in ValidatedAllocations,
                        r \in ValidatedRates}

NoCall ==
    /\ template = "Custom" /\ retirement_template = "Custom"
    /\ called = <<>> /\ result = FALSE /\ shown = "none" /\ steps = 0
    /\ event = "none"

NoSimulatorInput ==
    /\ years = 0 /\ final_portfolio_value = RZero
    /\ withdrawal_rates = <<>> /\ retirement_years = 0

InitValidate ==
    /\ \/ /\ portfolios \in SeqsUpTo(ValidatedPortfolios, MaxValidated)
          /\ retirement_portfolios = <<>>
       \/ /\ portfolios = <<>>
          /\ retirement_portfolios \in SeqsUpTo(ValidatedAssets, MaxValidated)
    /\ NoSimulatorInput
    /\ NoCall

CallValidatePortfolios ==
    /\ called = <<>>
    /\ called' = <<"validate_portfolios">>
    /\ result' = validate_portfolios(portfolios)
    /\ UNCHANGED <<inputs, shown, steps, event>>

CallValidateRetirementPortfolios ==
    /\ called = <<>>
    /\ called' = <<"validate_retirement_portfolios">>
    /\ result' = validate_retirement_portfolios(retirement_portfolios)
    /\ UNCHANGED <<inputs, shown, steps, event>>

NextValidate == CallValidatePortfolios \/ CallValidateRetirementPortfolios

SpecValidate == InitValidate /\ [][NextValidate]_vars

-----------------------------------------------------------------------------
(* C3: validate_portfolios returns true exactly when the component list is *)
(* non-empty and every component has a non-blank name, initial >= 0,       *)
(* annual >= 0, rate >= 0 and not (initial = 0 and annual = 0); so it      *)
(* returns false for the empty list.                                       *)

ComponentActive(p) ==
    /\ \E k \in 1..Len(p.name) : p.name[k] \notin Whitespace
    /\ p.initial.n >= 0 /\ p.annual.n >= 0 /\ p.rate.n >= 0
    /\ ~(p.initial.n = 0 /\ p.annual.n = 0)

C3_ValidatePortfoliosRejectsEmpty ==
    called = <<"validate_portfolios">> =>
        (result <=> /\ portfolios # <<>>
                    /\ \A i \in 1..Len(portfolios) : ComponentActive(portfolios[i]))

-----------------------------------------------------------------------------
(* C4: for asset lists whose names are all non-blank,                      *)
(* validate_retirement_portfolios returns true exactly when the list is    *)
(* non-empty, the allocations sum to within 0.01 of 1.0, every allocation  *)
(* is > 0 and every rate is >= 0.                                          *)

NamesNonBlank(rps) ==
    \A i \in 1..Len(rps) : \E k \in 1..Len(rps[i].name) :
        rps[i].name[k] \notin Whitespace

\* 100 * |sum - 1| <= 1, on the numerator and denominator of the sum
WithinTolerance(total) == 100 * Abs(total.n - total.d) <= total.d

C4_ValidateRetirement ==
    (called = <<"validate_retirement_portfolios">>
        /\ NamesNonBlank(retirement_portfolios)) =>
        (result <=> /\ retirement_portfolios # <<>>
                    /\ WithinTolerance(TotalAllocation(retirement_portfolios))
                    /\ \A i \in 1..Len(retirement_portfolios) :
                          /\ retirement_portfolios[i].allocation.n > 0
                          /\ retirement_portfolios[i].rate.n >= 0)

\* a two-asset list summing to 0.995 was accepted
C4_Witness ==
    /\ called = <<"validate_retirement_portfolios">>
    /\ Len(retirement_portfolios) = 2
    /\ NamesNonBlank(retirement_portfolios)
    /\ TotalAllocation(retirement_portfolios) = Rat(199, 200)
    /\ result = TRUE

\* a list summing to 0.98 was rejected
C4_Rejects098 ==
    (called = <<"validate_retirement_portfolios">>
        /\ TotalAllocation(retirement_portfolios) = Rat(49, 50)) => result = FALSE

-----------------------------------------------------------------------------
(* Accumulation simulator: calculate_portfolio_growth *)

GrowthStepSubtracts(value, annual, rate) ==
    RMul(RSub(value, annual), RAdd(ROne, rate))

\* value = (value + portfolio["annual"]) * (1 + portfolio["rate"])
GrowthStep(value, annual, rate) ==
    RMul(RAdd(value, annual), RAdd(ROne, rate))

RECURSIVE CompoundLoop(_, _, _, _)
\* for y in range(year): value = ...
CompoundLoop(value, y, year, portfolio) ==
    IF y >= year THEN value
    ELSE CompoundLoop(GrowthStep(value, portfolio.annual, portfolio.rate),
                      y + 1, year, portfolio)

\* the value of one component in one year, recomputed from its initial amount
ComponentValue(portfolio, year) ==
    IF year = 0 THEN portfolio.initial
    ELSE CompoundLoop(portfolio.initial, 0, year, portfolio)

RECURSIVE PortfolioLoop(_, _, _, _, _)
\* for portfolio in portfolios: year_data[name] = value; total_value += value
PortfolioLoop(year_data, total_value, i, ps, year) ==
    IF i > Len(ps) THEN [year_data |-> year_data, total_value |-> total_value]
    ELSE LET value == ComponentValue(ps[i], year)
         IN  PortfolioLoop(DictSet(year_data, ps[i].name, value),
                           RAdd(total_value, value), i + 1, ps, year)

\* one pass of the outer loop: the dict appended to results
YearData(ps, year) ==
    LET done == PortfolioLoop(DictSet(EmptyDict, KeyYear, RInt(year)), RZero,
                              1, ps, year)
    IN  DictSet(done.year_data, KeyTotal, done.total_value)

\* the rows of the returned DataFrame, row k for year k - 1
calculate_portfolio_growth(ps, yrs) == [k \in 1..(yrs + 1) |-> YearData(ps, k - 1)]

GrowthNames == {NameA, KeyTotal, KeyYear}
GrowthAmounts == {RZero, RInt(1)}
GrowthRates == {Rat(-1, 2), RZero, Rat(1, 2)}
GrowthPortfolios ==
    {Portfolio(nm, i, a, r) : nm \in GrowthNames, i \in GrowthAmounts,
                              a \in GrowthAmounts, r \in GrowthRates}

InitGrowth ==
    /\ portfolios \in SeqsUpTo(GrowthPortfolios, MaxPortfolios)
    /\ years \in 0..MaxYears
    /\ retirement_portfolios = <<>>
    /\ final_portfolio_value = RZero
    /\ withdrawal_rates = <<>> /\ retirement_years = 0
    /\ NoCall

PortfoliosAfterGrowthWritesBack(ps, yrs) ==
    [i \in 1..Len(ps) |-> [ps[i] EXCEPT !.initial = ComponentValue(ps[i], yrs)]]

\* the argument list after the call: the function reads portfolio["initial"],
\* ["annual"], ["rate"] and ["name"] and assigns only to its own year_data,
\* total_value, value and results
PortfoliosAfterGrowth(ps, yrs) == ps

CallCalculatePortfolioGrowth ==
    /\ called = <<>>
    /\ called' = <<"calculate_portfolio_growth">>
    /\ result' = calculate_portfolio_growth(portfolios, years)
    /\ portfolios' = PortfoliosAfterGrowth(portfolios, years)
    /\ UNCHANGED <<retirement_portfolios, template, retirement_template, years,
                   final_portfolio_value, withdrawal_rates, retirement_years,
                   shown, steps, event>>

NextGrowth == CallCalculatePortfolioGrowth

SpecGrowth == InitGrowth /\ [][NextGrowth]_vars

GrowthReturned == called = <<"calculate_portfolio_growth">>

\* the columns of a row that hold component values
ComponentColumns(point) == DOMAIN point \ {KeyYear, KeyTotal}

RECURSIVE SumOver(_, _)
SumOver(point, keys) ==
    IF keys = {} THEN RZero
    ELSE LET k == CHOOSE x \in keys : TRUE
         IN  RAdd(point[k], SumOver(point, keys \ {k}))

SumInitial(ps) == SumSeq([i \in 1..Len(ps) |-> ps[i].initial])

-----------------------------------------------------------------------------
(* C2: for every component list and years >= 0 the result has years + 1    *)
(* points whose Year fields are 0, 1, ..., years in order; each            *)
(* component's value is its initial amount at year 0 and                   *)
(* (previous value + annual) * (1 + rate) at every later year; for         *)
(* years = 0 the single point's Total is the sum of the initial amounts.   *)

RecurrenceHolds ==
    /\ Len(result) = years + 1
    /\ \A k \in 1..Len(result) : result[k][KeyYear] = RInt(k - 1)
    /\ \A i \in 1..Len(portfolios) :
          LET p == portfolios[i]
          IN  /\ result[1][p.name] = p.initial
              /\ \A k \in 2..Len(result) :
                    result[k][p.name] =
                        RMul(RAdd(result[k - 1][p.name], p.annual),
                             RAdd(ROne, p.rate))
    /\ years = 0 => result[1][KeyTotal] = SumInitial(portfolios)

C2_GrowthRecurrence == GrowthReturned => RecurrenceHolds

\* the statement of C2 does hold of lists whose names are pairwise distinct
\* and are neither "Year" nor "Total"
DistinctPlainNames(ps) ==
    /\ \A i, j \in 1..Len(ps) : ps[i].name = ps[j].name => i = j
    /\ \A i \in 1..Len(ps) : ps[i].name \notin {KeyYear, KeyTotal}

GrowthRecurrenceForPlainNames ==
    (GrowthReturned /\ DistinctPlainNames(portfolios)) => RecurrenceHolds

-----------------------------------------------------------------------------
(* C8: for every component list accepted by validate_portfolios and every  *)
(* year, the Total of the point equals the sum of the per-component values *)
(* recorded in that point, one recorded value per component, also when two *)
(* components share a name or one is named "Total" or "Year".              *)

C8_TotalIsSumOfRecorded ==
    (GrowthReturned /\ validate_portfolios(portfolios)) =>
        \A k \in 1..Len(result) :
            /\ Cardinality(ComponentColumns(result[k])) = Len(portfolios)
            /\ result[k][KeyTotal] = SumOver(result[k], ComponentColumns(result[k]))

-----------------------------------------------------------------------------
(* C9: when every rate, annual contribution and initial amount is >= 0,    *)
(* the Total column is non-decreasing: Total[y] <= Total[y+1].             *)

NonNegativeComponents(ps) ==
    \A i \in 1..Len(ps) :
        ps[i].rate.n >= 0 /\ ps[i].annual.n >= 0 /\ ps[i].initial.n >= 0

C9_TotalNonDecreasing ==
    (GrowthReturned /\ NonNegativeComponents(portfolios)) =>
        \A k \in 1..(Len(result) - 1) :
            RLe(result[k][KeyTotal], result[k + 1][KeyTotal])

\* two non-negative components over two years whose Total grew each year
C9_Witness ==
    /\ GrowthReturned /\ NonNegativeComponents(portfolios)
    /\ Len(portfolios) = 2 /\ years >= 2
    /\ \A k \in 1..(Len(result) - 1) :
          RLt(result[k][KeyTotal], result[k + 1][KeyTotal])

-----------------------------------------------------------------------------
(* Scenario aggregator: calculate_withdrawal_scenarios *)

\* f"{rate:.1%}": the rate times 100 with one decimal, rounded half to even,
\* and a minus sign for a negative rate.  The digits are kept as the number
\* of tenths of a percent: "4.0%" is [neg |-> FALSE, tenths |-> 40].
ScenarioName(rate) ==
    LET num == Abs(rate.n) * 1000
        q == num \div rate.d
        twice == 2 * (num % rate.d)
        up == twice > rate.d \/ (twice = rate.d /\ q % 2 = 1)
    IN  [neg |-> rate.n < 0, tenths |-> IF up THEN q + 1 ELSE q]

\* sum(p["allocation"] * p["rate"] for p in retirement_portfolios)
BlendedGrowthRate(rps) ==
    SumSeq([i \in 1..Len(rps) |-> RMul(rps[i].allocation, rps[i].rate)])

DrawdownStepGrowsFirst(current_value, annual_withdrawal, blended_growth_rate) ==
    RSub(RMul(current_value, RAdd(ROne, blended_growth_rate)), annual_withdrawal)

\* current_value = (current_value - annual_withdrawal) * (1 + blended_growth_rate)
DrawdownStep(current_value, annual_withdrawal, blended_growth_rate) ==
    RMul(RSub(current_value, annual_withdrawal), RAdd(ROne, blended_growth_rate))

RECURSIVE YearLoop(_, _, _, _, _, _)
\* for year in range(retirement_years + 1): current_value is the running
\* balance, which is not clamped; only the appended value is
YearLoop(current_value, portfolio_values, year, annual_withdrawal, blended, ryears) ==
    IF year > ryears THEN portfolio_values
    ELSE IF year = 0
    THEN YearLoop(current_value, Append(portfolio_values, current_value), 1,
                  annual_withdrawal, blended, ryears)
    ELSE LET next_value == DrawdownStep(current_value, annual_withdrawal, blended)
         IN  YearLoop(next_value, Append(portfolio_values, Max0(next_value)),
                      year + 1, annual_withdrawal, blended, ryears)

ScenarioFinalIsFirst(fpv, rate, ryears, blended_growth_rate) ==
    LET annual_withdrawal == RMul(fpv, rate)
        portfolio_values == YearLoop(fpv, <<>>, 0, annual_withdrawal,
                                     blended_growth_rate, ryears)
    IN  [annual_withdrawal |-> annual_withdrawal,
         monthly_withdrawal |-> RDivInt(annual_withdrawal, 12),
         portfolio_values |-> portfolio_values,
         final_value |-> portfolio_values[1],
         blended_rate |-> blended_growth_rate]

\* the body of the loop over the rates: the record stored for one rate
Scenario(fpv, rate, ryears, blended_growth_rate) ==
    LET annual_withdrawal == RMul(fpv, rate)
        portfolio_values == YearLoop(fpv, <<>>, 0, annual_withdrawal,
                                     blended_growth_rate, ryears)
    IN  [annual_withdrawal |-> annual_withdrawal,
         monthly_withdrawal |-> RDivInt(annual_withdrawal, 12),
         portfolio_values |-> portfolio_values,
         final_value |-> portfolio_values[Len(portfolio_values)],
         blended_rate |-> blended_growth_rate]

RECURSIVE RateLoopCumulative(_, _, _, _, _, _)
\* the withdrawal accumulated over the rates seen so far
RateLoopCumulative(scenarios, i, fpv, rates, ryears, blended_growth_rate) ==
    IF i > Len(rates) THEN scenarios
    ELSE RateLoopCumulative(
             DictSet(scenarios, ScenarioName(rates[i]),
                     Scenario(fpv, SumSeq(SubSeq(rates, 1, i)), ryears,
                              blended_growth_rate)),
             i + 1, fpv, rates, ryears, blended_growth_rate)

RECURSIVE RateLoopKeepsFirst(_, _, _, _, _, _)
\* an existing label is not overwritten
RateLoopKeepsFirst(scenarios, i, fpv, rates, ryears, blended_growth_rate) ==
    IF i > Len(rates) THEN scenarios
    ELSE RateLoopKeepsFirst(
             IF ScenarioName(rates[i]) \in DOMAIN scenarios THEN scenarios
             ELSE DictSet(scenarios, ScenarioName(rates[i]),
                          Scenario(fpv, rates[i], ryears, blended_growth_rate)),
             i + 1, fpv, rates, ryears, blended_growth_rate)

RECURSIVE RateLoop(_, _, _, _, _, _)
\* for rate in withdrawal_rates: scenarios[scenario_name] = {...}
RateLoop(scenarios, i, fpv, rates, ryears, blended_growth_rate) ==
    IF i > Len(rates) THEN scenarios
    ELSE RateLoop(DictSet(scenarios, ScenarioName(rates[i]),
                          Scenario(fpv, rates[i], ryears, blended_growth_rate)),
                  i + 1, fpv, rates, ryears, blended_growth_rate)

calculate_withdrawal_scenarios(fpv, rates, ryears, rps) ==
    RateLoop(EmptyDict, 1, fpv, rates, ryears, BlendedGrowthRate(rps))

WithdrawValues == {RInt(-1), RZero, RInt(2)}
WithdrawRates ==
    {Rat(-1, 10000), RZero, Rat(1, 25), Rat(201, 5000), Rat(3, 4), ROne}
WithdrawAssetLists ==
    { <<>>,
      <<Asset(NameA, ROne, RZero)>>,
      <<Asset(NameA, Rat(1, 2), Rat(1, 2)), Asset(NameB, Rat(1, 2), RZero)>>,
      <<Asset(NameA, ROne, Rat(-3, 2))>> }

InitWithdraw ==
    /\ final_portfolio_value \in WithdrawValues
    /\ withdrawal_rates \in SeqsUpTo(WithdrawRates, MaxRates)
    /\ retirement_years \in 0..MaxRetirementYears
    /\ retirement_portfolios \in WithdrawAssetLists
    /\ portfolios = <<>> /\ years = 0
    /\ NoCall

\* the argument lists after the call: the function iterates over both and
\* assigns only to its own scenarios, portfolio_values and scalars
RatesAfterScenarios(rates, rps) == rates
AssetsAfterScenarios(rates, rps) == rps

CallCalculateWithdrawalScenarios ==
    /\ called = <<>>
    /\ called' = <<"calculate_withdrawal_scenarios">>
    /\ result' = calculate_withdrawal_scenarios(final_portfolio_value,
                     withdrawal_rates, retirement_years, retirement_portfolios)
    /\ withdrawal_rates' = RatesAfterScenarios(withdrawal_rates,
                                               retirement_portfolios)
    /\ retirement_portfolios' = AssetsAfterScenarios(withdrawal_rates,
                                                     retirement_portfolios)
    /\ UNCHANGED <<portfolios, template, retirement_template, years,
                   final_portfolio_value, retirement_years, shown, steps,
                   event>>

NextWithdraw == CallCalculateWithdrawalScenarios

SpecWithdraw == InitWithdraw /\ [][NextWithdraw]_vars

ScenariosReturned == called = <<"calculate_withdrawal_scenarios">>

\* the position of the last rate of the list that is stored under a label
LastIndexOf(label) ==
    CHOOSE i \in 1..Len(withdrawal_rates) :
        /\ ScenarioName(withdrawal_rates[i]) = label
        /\ \A j \in (i + 1)..Len(withdrawal_rates) :
              ScenarioName(withdrawal_rates[j]) # label

Labels == {ScenarioName(withdrawal_rates[i]) : i \in 1..Len(withdrawal_rates)}

\* sum of allocation * rate, on one common denominator
WeightedRateSum(rps) ==
    SumSeq([i \in 1..Len(rps) |->
               Rat(rps[i].allocation.n * rps[i].rate.n,
                   rps[i].allocation.d * rps[i].rate.d)])

-----------------------------------------------------------------------------
(* C1: for starting value, blended rate and withdrawal rate all >= 0, the  *)
(* trajectory stored for a rate has retirement_years + 1 entries, entry 0  *)
(* is the starting value and entry y is                                    *)
(* max(0, (entry[y-1] - annual_withdrawal) * (1 + blended_rate)) with      *)
(* annual_withdrawal = starting value * rate in every year.                *)

TrajectoryFollowsClampedRecurrence(values, rate) ==
    LET annual_withdrawal == RMul(final_portfolio_value, rate)
        growth == RAdd(ROne, WeightedRateSum(retirement_portfolios))
    IN  /\ Len(values) = retirement_years + 1
        /\ values[1] = final_portfolio_value
        /\ \A y \in 2..Len(values) :
              values[y] = LET stepped == RMul(RSub(values[y - 1], annual_withdrawal),
                                              growth)
                          IN  IF stepped.n > 0 THEN stepped ELSE RZero

DrawdownPreconditions(rate) ==
    /\ final_portfolio_value.n >= 0
    /\ WeightedRateSum(retirement_portfolios).n >= 0
    /\ rate.n >= 0

C1_ClampedDrawdown ==
    ScenariosReturned =>
        \A label \in DOMAIN result :
            LET rate == withdrawal_rates[LastIndexOf(label)]
            IN  DrawdownPreconditions(rate) =>
                    TrajectoryFollowsClampedRecurrence(
                        result[label].portfolio_values, rate)

\* a trajectory under a positive blended rate that reached 0 before the
\* last year, so that the next step started from a balance below the
\* withdrawal and the clamp acted
C1_Witness ==
    /\ ScenariosReturned
    /\ \E label \in DOMAIN result :
          LET rate == withdrawal_rates[LastIndexOf(label)]
              values == result[label].portfolio_values
          IN  /\ DrawdownPreconditions(rate)
              /\ WeightedRateSum(retirement_portfolios).n > 0
              /\ \E y \in 2..(Len(values) - 1) :
                    /\ values[y] = RZero
                    /\ RLt(values[y], RMul(final_portfolio_value, rate))

-----------------------------------------------------------------------------
(* C5: for every list of withdrawal rates and every permutation of it the  *)
(* returned mapping is the same, and the entry under a rate's label is the *)
(* one that rate alone would give.                                         *)

ListPermutations(s) ==
    {[i \in 1..Len(s) |-> s[p[i]]] :
        p \in {f \in [1..Len(s) -> 1..Len(s)] :
                  \A a, b \in 1..Len(s) : f[a] = f[b] => a = b}}

OrderAndCompanyIrrelevant ==
    /\ \A perm \in ListPermutations(withdrawal_rates) :
          calculate_withdrawal_scenarios(final_portfolio_value, perm,
              retirement_years, retirement_portfolios) = result
    /\ \A i \in 1..Len(withdrawal_rates) :
          LET alone == calculate_withdrawal_scenarios(final_portfolio_value,
                           <<withdrawal_rates[i]>>, retirement_years,
                           retirement_portfolios)
              label == ScenarioName(withdrawal_rates[i])
          IN  result[label] = alone[label]

C5_OrderIndependent == ScenariosReturned => OrderAndCompanyIrrelevant

\* rates of the list that share a label are the same rate
LabelsSeparateRates ==
    \A i, j \in 1..Len(withdrawal_rates) :
        ScenarioName(withdrawal_rates[i]) = ScenarioName(withdrawal_rates[j])
            => withdrawal_rates[i] = withdrawal_rates[j]

\* amended: the same, for lists in which no two different rates share a label
C5_OrderIndependentForSeparateLabels ==
    (ScenariosReturned /\ LabelsSeparateRates) => OrderAndCompanyIrrelevant

\* two different rates with different labels and a non-zero starting value
C5_Witness ==
    /\ ScenariosReturned /\ LabelsSeparateRates
    /\ Len(withdrawal_rates) = 2
    /\ withdrawal_rates[1] # withdrawal_rates[2]
    /\ final_portfolio_value # RZero
    /\ Cardinality(DOMAIN result) = 2
    /\ result[ScenarioName(withdrawal_rates[1])]
           # result[ScenarioName(withdrawal_rates[2])]

-----------------------------------------------------------------------------
(* C6: the mapping is empty for an empty rate list, has one entry per      *)
(* distinct rate label (so one entry for a rate requested twice), and a    *)
(* later rate with the same label overwrites the earlier entry.            *)

C6_OneEntryPerLabel ==
    ScenariosReturned =>
        /\ withdrawal_rates = <<>> => DOMAIN result = {}
        /\ DOMAIN result = Labels
        /\ Cardinality(DOMAIN result) = Cardinality(Labels)
        /\ \A i \in 1..Len(withdrawal_rates) :
              (\A j \in (i + 1)..Len(withdrawal_rates) :
                  ScenarioName(withdrawal_rates[j]) # ScenarioName(withdrawal_rates[i]))
              => result[ScenarioName(withdrawal_rates[i])].annual_withdrawal
                     = RMul(final_portfolio_value, withdrawal_rates[i])

\* 4% and then 4.02%, both labelled "4.0%": one entry, holding the later rate's
C6_Witness ==
    /\ ScenariosReturned
    /\ withdrawal_rates = <<Rat(1, 25), Rat(201, 5000)>>
    /\ final_portfolio_value = RInt(2)
    /\ Cardinality(DOMAIN result) = 1
    /\ \A label \in DOMAIN result :
          result[label].annual_withdrawal = Rat(201, 2500)

-----------------------------------------------------------------------------
(* C7: every scenario record is self-consistent: annual_withdrawal =       *)
(* starting value * its rate, monthly_withdrawal = annual_withdrawal / 12, *)
(* final_value = the last trajectory entry, blended_rate = the sum of      *)
(* allocation * rate, the same in every scenario of the call.              *)

C7_ScenarioSelfConsistent ==
    ScenariosReturned =>
        \A label \in DOMAIN result :
            LET s == result[label]
                rate == withdrawal_rates[LastIndexOf(label)]
            IN  /\ s.annual_withdrawal = RMul(final_portfolio_value, rate)
                /\ RMul(s.monthly_withdrawal, RInt(12)) = s.annual_withdrawal
                /\ s.final_value = s.portfolio_values[retirement_years + 1]
                /\ s.blended_rate = WeightedRateSum(retirement_portfolios)
                /\ \A other \in DOMAIN result :
                      result[other].blended_rate = s.blended_rate

\* two scenarios over a two-asset allocation whose trajectories change
C7_Witness ==
    /\ ScenariosReturned
    /\ Cardinality(DOMAIN result) = 2
    /\ Len(retirement_portfolios) = 2
    /\ retirement_years >= 1
    /\ \A label \in DOMAIN result :
          /\ result[label].blended_rate = Rat(1, 4)
          /\ result[label].final_value # final_portfolio_value

-----------------------------------------------------------------------------
(* C11: for starting value, blended rate and withdrawal rate all >= 0,     *)
(* exhaustion is permanent: a trajectory that is 0 at some year y >= 1 is  *)
(* 0 at every later year, and no trajectory entry is negative.             *)

ExhaustionPermanent(values) ==
    /\ \A y \in 2..Len(values) :
          values[y].n = 0 => \A z \in y..Len(values) : values[z].n = 0
    /\ \A y \in 1..Len(values) : values[y].n >= 0

C11_ExhaustionPermanent ==
    ScenariosReturned =>
        \A label \in DOMAIN result :
            DrawdownPreconditions(withdrawal_rates[LastIndexOf(label)]) =>
                ExhaustionPermanent(result[label].portfolio_values)

\* a positive starting value under a positive blended rate that was positive
\* after the first year, 0 in a later year and still 0 in the year after it
C11_Witness ==
    /\ ScenariosReturned
    /\ final_portfolio_value.n > 0
    /\ WeightedRateSum(retirement_portfolios).n > 0
    /\ \E label \in DOMAIN result :
          LET values == result[label].portfolio_values
          IN  /\ DrawdownPreconditions(withdrawal_rates[LastIndexOf(label)])
              /\ \E y \in 3..(Len(values) - 1) :
                    /\ values[y - 1].n > 0
                    /\ values[y].n = 0
                    /\ values[y + 1].n = 0

-----------------------------------------------------------------------------
(* The two simulators side by side *)

InitSimulators == InitGrowth \/ InitWithdraw

NextSimulators ==
    CallCalculatePortfolioGrowth \/ CallCalculateWithdrawalScenarios

SpecSimulators == InitSimulators /\ [][NextSimulators]_vars

-----------------------------------------------------------------------------
(* C12: calculate_portfolio_growth and calculate_withdrawal_scenarios      *)
(* leave their inputs unchanged: after either call the component list, the *)
(* retirement asset list and the withdrawal-rate list, with every record   *)
(* in them, are what they were before the call.                            *)

C12_InputsUnchanged ==
    [][called' # called =>
          /\ portfolios' = portfolios
          /\ retirement_portfolios' = retirement_portfolios
          /\ withdrawal_rates' = withdrawal_rates]_vars

\* calculate_portfolio_growth returned for two components whose Total changed
C12_Witness ==
    /\ GrowthReturned
    /\ Len(portfolios) = 2 /\ years >= 1
    /\ result[years + 1][KeyTotal] # result[1][KeyTotal]

-----------------------------------------------------------------------------
(* The Streamlit script: main *)
(*                                                                         *)
(* Every user interaction runs main() from the top; st.rerun() abandons    *)
(* the run and starts another.  An action below is one interaction carried *)
(* to the end of the last run it causes.  A widget returns the value it is *)
(* given unless the user changes it in that run, and one interaction       *)
(* changes one widget or presses one button.                               *)

DigitChars == <<"0", "1", "2", "3", "4", "5", "6", "7", "8", "9">>

RECURSIVE Decimal(_)
\* str(n) for n >= 0
Decimal(n) == IF n < 10 THEN <<DigitChars[n + 1]>>
              ELSE Decimal(n \div 10) \o <<DigitChars[(n % 10) + 1]>>

DigitValue(c) == (CHOOSE k \in 1..10 : DigitChars[k] = c) - 1

RECURSIVE ParseDigits(_, _)
ParseDigits(s, acc) ==
    IF s = <<>> THEN acc ELSE ParseDigits(Tail(s), 10 * acc + DigitValue(Head(s)))

RECURSIVE StripPercent(_)
\* rate.strip('%')
StripPercent(s) ==
    IF s # <<>> /\ Head(s) = "%" THEN StripPercent(Tail(s))
    ELSE IF s # <<>> /\ s[Len(s)] = "%" THEN StripPercent(SubSeq(s, 1, Len(s) - 1))
    ELSE s

\* float(rate.strip('%')) / 100
RateFromOption(option) == Rat(ParseDigits(StripPercent(option), 0), 100)

\* withdrawal_rates_float
RatesFromOptions(selection) ==
    [i \in 1..Len(selection) |-> RateFromOption(selection[i])]

WithdrawalOptions ==
    << <<"3", "%">>, <<"4", "%">>, <<"5", "%">>, <<"6", "%">>, <<"7", "%">> >>
DefaultWithdrawalSelection == SubSeq(WithdrawalOptions, 1, 3)

YearsToRetirementMin == 10
YearsToRetirementMax == 30
YearsToRetirementDefault == 15
RetirementLengthMin == 20
RetirementLengthMax == 40
RetirementLengthDefault == 30

InitialPortfolios ==
    << Portfolio(<<"P", "r", "i", "m", "a", "r", "y", " ", "P", "o", "r", "t", "f", "o", "l", "i", "o">>, RInt(50000), RInt(10000), Rat(70, 1000)) >>
InitialRetirementPortfolios ==
    << Asset(<<"C", "o", "n", "s", "e", "r", "v", "a", "t", "i", "v", "e", " ", "B", "o", "n", "d", "s">>, Rat(60, 100), Rat(30, 1000)),
       Asset(<<"D", "i", "v", "i", "d", "e", "n", "d", " ", "S", "t", "o", "c", "k", "s">>, Rat(40, 100), Rat(60, 1000)) >>

Templates(template_name) ==
    IF template_name = "Conservative"
    THEN << Portfolio(<<"G", "o", "v", "e", "r", "n", "m", "e", "n", "t", " ", "B", "o", "n", "d", "s">>, RInt(30000), RInt(5000), Rat(30, 1000)),
           Portfolio(<<"C", "o", "r", "p", "o", "r", "a", "t", "e", " ", "B", "o", "n", "d", "s">>, RInt(20000), RInt(3000), Rat(40, 1000)),
           Portfolio(<<"D", "i", "v", "i", "d", "e", "n", "d", " ", "S", "t", "o", "c", "k", "s">>, RInt(15000), RInt(2000), Rat(60, 1000)) >>
    ELSE IF template_name = "Balanced"
    THEN << Portfolio(<<"I", "n", "d", "e", "x", " ", "F", "u", "n", "d", "s">>, RInt(40000), RInt(8000), Rat(70, 1000)),
           Portfolio(<<"B", "o", "n", "d", "s">>, RInt(25000), RInt(4000), Rat(40, 1000)),
           Portfolio(<<"I", "n", "t", "e", "r", "n", "a", "t", "i", "o", "n", "a", "l", " ", "S", "t", "o", "c", "k", "s">>, RInt(15000), RInt(3000), Rat(80, 1000)) >>
    ELSE IF template_name = "Aggressive"
    THEN << Portfolio(<<"G", "r", "o", "w", "t", "h", " ", "S", "t", "o", "c", "k", "s">>, RInt(35000), RInt(7000), Rat(100, 1000)),
           Portfolio(<<"T", "e", "c", "h", " ", "S", "t", "o", "c", "k", "s">>, RInt(25000), RInt(5000), Rat(120, 1000)),
           Portfolio(<<"E", "m", "e", "r", "g", "i", "n", "g", " ", "M", "a", "r", "k", "e", "t", "s">>, RInt(15000), RInt(3000), Rat(90, 1000)) >>
    ELSE <<>>

RetirementTemplates(template_name) ==
    IF template_name = "Conservative"
    THEN << Asset(<<"T", "r", "e", "a", "s", "u", "r", "y", " ", "B", "o", "n", "d", "s">>, Rat(70, 100), Rat(30, 1000)),
           Asset(<<"H", "i", "g", "h", "-", "Y", "i", "e", "l", "d", " ", "S", "a", "v", "i", "n", "g", "s">>, Rat(20, 100), Rat(20, 1000)),
           Asset(<<"D", "i", "v", "i", "d", "e", "n", "d", " ", "S", "t", "o", "c", "k", "s">>, Rat(10, 100), Rat(50, 1000)) >>
    ELSE IF template_name = "Moderate"
    THEN << Asset(<<"G", "o", "v", "e", "r", "n", "m", "e", "n", "t", " ", "B", "o", "n", "d", "s">>, Rat(50, 100), Rat(30, 1000)),
           Asset(<<"C", "o", "r", "p", "o", "r", "a", "t", "e", " ", "B", "o", "n", "d", "s">>, Rat(30, 100), Rat(40, 1000)),
           Asset(<<"D", "i", "v", "i", "d", "e", "n", "d", " ", "S", "t", "o", "c", "k", "s">>, Rat(20, 100), Rat(60, 1000)) >>
    ELSE IF template_name = "Balanced"
    THEN << Asset(<<"B", "o", "n", "d", "s">>, Rat(40, 100), Rat(35, 1000)),
           Asset(<<"D", "i", "v", "i", "d", "e", "n", "d", " ", "S", "t", "o", "c", "k", "s">>, Rat(40, 100), Rat(60, 1000)),
           Asset(<<"G", "r", "o", "w", "t", "h", " ", "S", "t", "o", "c", "k", "s">>, Rat(20, 100), Rat(80, 1000)) >>
    ELSE <<>>

TemplateOptions == {"Custom", "Conservative", "Balanced", "Aggressive"}
RetirementTemplateOptions == {"Custom", "Conservative", "Moderate", "Balanced"}

\* if template != "Custom": apply_template(template)
AfterTemplate(template_name, ps) ==
    IF template_name # "Custom" /\ Templates(template_name) # <<>>
    THEN Templates(template_name) ELSE ps

\* if retirement_template != "Custom": apply_retirement_template(...)
AfterRetirementTemplate(template_name, rps) ==
    IF template_name # "Custom" /\ RetirementTemplates(template_name) # <<>>
    THEN RetirementTemplates(template_name) ELSE rps

CanDeleteLast(rows) == Len(rows) > 0

\* if len(st.session_state.portfolios) > 1: and the same for the assets
CanDelete(rows) == Len(rows) > 1

\* list.pop(i), i counted from 1
Pop(s, i) == SubSeq(s, 1, i - 1) \o SubSeq(s, i + 1, Len(s))

NewPortfolio(ps) ==
    Portfolio(<<"P", "o", "r", "t", "f", "o", "l", "i", "o", " ">>
                  \o Decimal(Len(ps) + 1),
              RZero, RZero, Rat(7, 100))
NewAsset(rps) ==
    Asset(<<"A", "s", "s", "e", "t", " ">> \o Decimal(Len(rps) + 1),
          RZero, Rat(4, 100))

\* st.number_input(...) / 100 of the allocation widget, from a percentage
AllocationFromPercent(percent) == Rat(percent, 100)

\* what the user types into the widgets of a row
PortfolioEdits ==
    {<<"name", NameBlank>>, <<"name", NameA>>,
     <<"initial", RZero>>, <<"initial", RInt(1000)>>, <<"annual", RZero>>}
AssetEdits ==
    {<<"name", NameBlank>>,
     <<"allocation", AllocationFromPercent(0)>>,
     <<"allocation", AllocationFromPercent(50)>>,
     <<"allocation", AllocationFromPercent(100)>>}

AnalysisGateEither(valid_portfolios, valid_retirement_portfolios) ==
    valid_portfolios \/ valid_retirement_portfolios

\* if valid_portfolios and valid_retirement_portfolios:
AnalysisGate(valid_portfolios, valid_retirement_portfolios) ==
    valid_portfolios /\ valid_retirement_portfolios

\* the calls of display_portfolio_analysis
DisplayCalls(rates) ==
    <<"display_portfolio_analysis", "calculate_portfolio_growth">>
        \o (IF rates # <<>> THEN <<"calculate_withdrawal_scenarios">> ELSE <<>>)

\* the calls of tab 3
Tab3Calls(valid_portfolios, valid_retirement_portfolios, rates) ==
    <<"validate_portfolios", "validate_retirement_portfolios">>
        \o (IF AnalysisGate(valid_portfolios, valid_retirement_portfolios)
            THEN DisplayCalls(rates) ELSE <<>>)

Tab3Shown(valid_portfolios, valid_retirement_portfolios) ==
    IF AnalysisGate(valid_portfolios, valid_retirement_portfolios)
    THEN "analysis" ELSE "warning"

\* tab 1 calls validate_portfolios for its summary
Tab1Calls == <<"validate_portfolios">>

\* the end of the interaction: the last run went through tabs 1, 2 and 3 with
\* the lists ps and rps; abandoned holds the calls of a run ended by st.rerun()
Finish(ps, rps, rates, abandoned) ==
    /\ steps < MaxSteps
    /\ steps' = steps + 1
    /\ portfolios' = ps
    /\ retirement_portfolios' = rps
    /\ withdrawal_rates' = rates
    /\ result' = [valid_portfolios |-> validate_portfolios(portfolios'),
                  valid_retirement_portfolios |->
                      validate_retirement_portfolios(retirement_portfolios')]
    /\ called' = abandoned \o Tab1Calls
                     \o Tab3Calls(result'.valid_portfolios,
                                  result'.valid_retirement_portfolios, rates)
    /\ shown' = Tab3Shown(result'.valid_portfolios,
                          result'.valid_retirement_portfolios)
    /\ final_portfolio_value' = final_portfolio_value

Init ==
    /\ portfolios = InitialPortfolios
    /\ retirement_portfolios = InitialRetirementPortfolios
    /\ years = YearsToRetirementDefault
    /\ retirement_years = RetirementLengthDefault
    /\ withdrawal_rates = RatesFromOptions(DefaultWithdrawalSelection)
    /\ final_portfolio_value = RZero
    /\ NoCall

\* a run with no change: the first load, or the Save Config button
Rerun ==
    /\ Finish(AfterTemplate(template, portfolios),
              AfterRetirementTemplate(retirement_template, retirement_portfolios),
              withdrawal_rates, <<>>)
    /\ UNCHANGED <<template, retirement_template, years, retirement_years>>
    /\ event' = "rerun"

SetYearsToRetirement(y) ==
    /\ years' = y
    /\ Finish(AfterTemplate(template, portfolios),
              AfterRetirementTemplate(retirement_template, retirement_portfolios),
              withdrawal_rates, <<>>)
    /\ UNCHANGED <<template, retirement_template, retirement_years>>
    /\ event' = "years_to_retirement"

SetRetirementLength(l) ==
    /\ retirement_years' = l
    /\ Finish(AfterTemplate(template, portfolios),
              AfterRetirementTemplate(retirement_template, retirement_portfolios),
              withdrawal_rates, <<>>)
    /\ UNCHANGED <<template, retirement_template, years>>
    /\ event' = "retirement_length"

SetWithdrawalRates(selection) ==
    /\ Finish(AfterTemplate(template, portfolios),
              AfterRetirementTemplate(retirement_template, retirement_portfolios),
              RatesFromOptions(selection), <<>>)
    /\ UNCHANGED <<template, retirement_template, years, retirement_years>>
    /\ event' = "withdrawal_rates"

SelectTemplate(t) ==
    /\ template' = t
    /\ Finish(AfterTemplate(t, portfolios),
              AfterRetirementTemplate(retirement_template, retirement_portfolios),
              withdrawal_rates, <<>>)
    /\ UNCHANGED <<retirement_template, years, retirement_years>>
    /\ event' = "template"

SelectRetirementTemplate(t) ==
    /\ retirement_template' = t
    /\ Finish(AfterTemplate(template, portfolios),
              AfterRetirementTemplate(t, retirement_portfolios),
              withdrawal_rates, <<>>)
    /\ UNCHANGED <<template, years, retirement_years>>
    /\ event' = "retirement_template"

EditPortfolio(i, edit) ==
    LET ps == AfterTemplate(template, portfolios)
    IN  /\ i \in 1..Len(ps)
        /\ Finish([ps EXCEPT ![i][edit[1]] = edit[2]],
                  AfterRetirementTemplate(retirement_template,
                                          retirement_portfolios),
                  withdrawal_rates, <<>>)
        /\ UNCHANGED <<template, retirement_template, years, retirement_years>>
        /\ event' = "edit_portfolio"

\* the delete button of row i: pop and rerun when more than one row is left
DeletePortfolio(i) ==
    LET ps == AfterTemplate(template, portfolios)
    IN  /\ i \in 1..Len(ps)
        /\ Finish(IF CanDelete(ps) THEN AfterTemplate(template, Pop(ps, i)) ELSE ps,
                  AfterRetirementTemplate(retirement_template,
                                          retirement_portfolios),
                  withdrawal_rates, <<>>)
        /\ UNCHANGED <<template, retirement_template, years, retirement_years>>
        /\ event' = "delete_portfolio"

\* the Add Portfolio button: append and rerun
AddPortfolio ==
    LET ps == AfterTemplate(template, portfolios)
    IN  /\ Finish(AfterTemplate(template, Append(ps, NewPortfolio(ps))),
                  AfterRetirementTemplate(retirement_template,
                                          retirement_portfolios),
                  withdrawal_rates, <<>>)
        /\ UNCHANGED <<template, retirement_template, years, retirement_years>>
        /\ event' = "add_portfolio"

EditAsset(i, edit) ==
    LET rps == AfterRetirementTemplate(retirement_template, retirement_portfolios)
    IN  /\ i \in 1..Len(rps)
        /\ Finish(AfterTemplate(template, portfolios),
                  [rps EXCEPT ![i][edit[1]] = edit[2]],
                  withdrawal_rates, <<>>)
        /\ UNCHANGED <<template, retirement_template, years, retirement_years>>
        /\ event' = "edit_asset"

\* the delete button of asset i, in tab 2: tab 1 of the abandoned run is done
DeleteAsset(i) ==
    LET rps == AfterRetirementTemplate(retirement_template, retirement_portfolios)
    IN  /\ i \in 1..Len(rps)
        /\ Finish(AfterTemplate(template, portfolios),
                  IF CanDelete(rps)
                  THEN AfterRetirementTemplate(retirement_template, Pop(rps, i))
                  ELSE rps,
                  withdrawal_rates,
                  IF CanDelete(rps) THEN Tab1Calls ELSE <<>>)
        /\ UNCHANGED <<template, retirement_template, years, retirement_years>>
        /\ event' = "delete_asset"

\* the Add Retirement Asset button: append and rerun
AddAsset ==
    LET rps == AfterRetirementTemplate(retirement_template, retirement_portfolios)
    IN  /\ Finish(AfterTemplate(template, portfolios),
                  AfterRetirementTemplate(retirement_template,
                                          Append(rps, NewAsset(rps))),
                  withdrawal_rates, Tab1Calls)
        /\ UNCHANGED <<template, retirement_template, years, retirement_years>>
        /\ event' = "add_asset"

\* the rows a list of the session can have
Rows == 1..(3 + MaxSteps)

Next ==
    \/ Rerun
    \/ \E y \in {YearsToRetirementMin, YearsToRetirementMax} :
          SetYearsToRetirement(y)
    \/ \E l \in {RetirementLengthMin, RetirementLengthMax} :
          SetRetirementLength(l)
    \/ \E selection \in {<<>>, DefaultWithdrawalSelection,
                         SubSeq(WithdrawalOptions, 5, 5)} :
          SetWithdrawalRates(selection)
    \/ \E t \in TemplateOptions : SelectTemplate(t)
    \/ \E t \in RetirementTemplateOptions : SelectRetirementTemplate(t)
    \/ \E i \in Rows, edit \in PortfolioEdits : EditPortfolio(i, edit)
    \/ \E i \in Rows : DeletePortfolio(i)
    \/ AddPortfolio
    \/ \E i \in Rows, edit \in AssetEdits : EditAsset(i, edit)
    \/ \E i \in Rows : DeleteAsset(i)
    \/ AddAsset

Spec == Init /\ [][Next]_vars

-----------------------------------------------------------------------------
(* C10: display_portfolio_analysis, and with it the two simulators, is     *)
(* invoked only when validate_portfolios and                               *)
(* validate_retirement_portfolios both hold of the current session lists;  *)
(* otherwise no simulator runs and the warning is shown.                   *)

Simulators ==
    {"display_portfolio_analysis", "calculate_portfolio_growth",
     "calculate_withdrawal_scenarios"}

SimulatorRan == \E k \in 1..Len(called) : called[k] \in Simulators

SessionListsValid ==
    /\ validate_portfolios(portfolios)
    /\ validate_retirement_portfolios(retirement_portfolios)

C10_ValidateBeforeCompute ==
    steps > 0 =>
        /\ SimulatorRan => (SessionListsValid /\ shown = "analysis")
        /\ ~SessionListsValid => (~SimulatorRan /\ shown = "warning")

\* a later run of a session with a valid accumulation list and an invalid
\* retirement list: the warning was shown and no simulator ran
C10_Witness ==
    /\ steps > 1
    /\ ~SessionListsValid
    /\ validate_portfolios(portfolios)
    /\ shown = "warning"
    /\ ~SimulatorRan

-----------------------------------------------------------------------------
(* C13: after any sequence of add-row, delete-row and apply-template from  *)
(* the initial session state both lists hold at least one entry, and a     *)
(* delete on a list of length 1 leaves the list unchanged.                 *)

ListsNonEmpty == Len(portfolios) >= 1 /\ Len(retirement_portfolios) >= 1

\* the list a delete button is pressed on is the session list after the
\* template of the run has been applied
DeleteOfLastRowKeepsList ==
    /\ (event' = "delete_portfolio"
           /\ Len(AfterTemplate(template, portfolios)) = 1)
       => portfolios' = portfolios
    /\ (event' = "delete_asset"
           /\ Len(AfterRetirementTemplate(retirement_template,
                                          retirement_portfolios)) = 1)
       => retirement_portfolios' = retirement_portfolios

C13_ListsNeverEmpty == []ListsNonEmpty /\ [][DeleteOfLastRowKeepsList]_vars

\* the delete button was pressed on the only asset left, after an earlier
\* delete had taken the list from two assets to one
C13_Witness ==
    /\ event = "delete_asset"
    /\ steps >= 2
    /\ retirement_template = "Custom"
    /\ Len(retirement_portfolios) = 1
    /\ called[1] = "validate_portfolios" /\ Len(called) = 3
    /\ shown = "warning"

=============================================================================
